---- MODULE Spec2Model ----
(***************************************************************************)
(* Model of the context-assembly pipeline of the ADS chatbot:              *)
(*   src/src/app/streamlit_app.py      RAGChatApp.run                      *)
(*   src/src/app/utils/filters.py      filter_expired_deadlines            *)
(*   src/src/app/utils/reranker.py     CrossEncoderReranker.rerank         *)
(*   src/src/app/utils/guardrails.py   classify_guardrail                  *)
(*                                                                         *)
(* Text is modelled as a sequence of one-character strings so that         *)
(* substring search, lower-casing, the date regular expression and         *)
(* strptime are computed character by character, as Python computes them.  *)
(***************************************************************************)
EXTENDS Integers, Sequences, FiniteSets, TLC

VARIABLES
    pc,               \* position of the handler / of the unit harness
    prompt,           \* the user's question (st.chat_input)
    today,            \* the system clock's date, read by datetime.today()
    reference_date,   \* the date the caller has in mind (spec section 6); no code reads it
    used_date,        \* the date the first filter call compared against
    retrieved_docs,   \* retriever.get_relevant_documents(prompt)
    filtered_docs,    \* filter_expired_deadlines(retrieved_docs)
    refiltered_docs,  \* the filter applied to its own output
    bad_pair,         \* index of a (query, passage) pair whose scoring fails, 0 for none
    scores,           \* logits returned by the cross-encoder, one per passage
    reranked_docs,    \* self.reranker.rerank(prompt, retrieved_docs, top_k=5)
    verdict,          \* result of classify_guardrail, <<kind, message>>
    context,          \* "\n\n".join(doc.page_content ...)
    answer,           \* chain.run(...).strip()
    sources,          \* "\n".join("- " + source ...)
    calls,            \* the stages called so far, in call order
    raised            \* the exception that ended the handler, "none" if none

vars == << pc, prompt, today, reference_date, used_date, retrieved_docs,
           filtered_docs, refiltered_docs, bad_pair, scores, reranked_docs,
           verdict, context, answer, sources, calls, raised >>

(***************************************************************************)
(* Bounds of the model.                                                    *)
(***************************************************************************)
\* as_retriever(search_kwargs={"k": 10}), scaled down
RetrieverK == 4
\* rerank(..., top_k=5), scaled down so that truncation happens within RetrieverK
TopK == 2
\* logits are drawn from 0..MaxScore
MaxScore == 1
\* longest passage list given to the filter and guardrail units
MaxUnitDocs == 2

(***************************************************************************)
(* Texts.                                                                  *)
(***************************************************************************)
KW_deadline == <<"d","e","a","d","l","i","n","e">>
KW_due_date == <<"d","u","e"," ","d","a","t","e">>
KW_closes == <<"c","l","o","s","e","s">>
KW_cutoff == <<"c","u","t","o","f","f">>
KW_round == <<"r","o","u","n","d">>
KW_fee == <<"f","e","e">>
KW_tuition == <<"t","u","i","t","i","o","n">>
KW_cost == <<"c","o","s","t">>
KW_price == <<"p","r","i","c","e">>
KW_requirement == <<"r","e","q","u","i","r","e","m","e","n","t">>
KW_criteria == <<"c","r","i","t","e","r","i","a">>
KW_prerequisite == <<"p","r","e","r","e","q","u","i","s","i","t","e">>
KW_gpa == <<"g","p","a">>
Q_deadline == <<"W","h","a","t"," ","i","s"," ","t","h","e"," ","a","p","p","l","i","c","a","t","i","o","n"," ","d","e","a","d","l","i","n","e","?">>
Q_tuition == <<"H","o","w"," ","m","u","c","h"," ","i","s"," ","T","U","I","T","I","O","N","?">>
Q_gpa_cost == <<"G","P","A"," ","a","n","d"," ","c","o","s","t","?">>
Q_capstone == <<"T","e","l","l"," ","m","e"," ","a","b","o","u","t"," ","t","h","e"," ","c","a","p","s","t","o","n","e">>
Q_coffee == <<"I","s"," ","t","h","e","r","e"," ","c","o","f","f","e","e","?">>
Q_due_date == <<"W","h","e","n"," ","i","s"," ","t","h","e"," ","D","u","e"," ","D","a","t","e","?">>
T_round1 == <<"R","o","u","n","d"," ","1"," ","d","e","a","d","l","i","n","e",":"," ","J","a","n","u","a","r","y"," ","5",","," ","2","0","2","4">>
T_future == <<"T","h","e"," ","d","e","a","d","l","i","n","e"," ","i","s"," ","D","e","c","e","m","b","e","r"," ","1",","," ","2","0","2","6",".">>
T_past == <<"T","h","e"," ","d","e","a","d","l","i","n","e"," ","w","a","s"," ","D","e","c","e","m","b","e","r"," ","1",","," ","2","0","2","4",".">>
T_tuition == <<"T","u","i","t","i","o","n"," ","F","E","E",":"," ","s","e","e"," ","w","e","b","s","i","t","e">>
T_capstone == <<"C","a","p","s","t","o","n","e"," ","p","r","o","j","e","c","t"," ","i","n","f","o">>
T_gpa == <<"M","i","n","i","m","u","m"," ","G","P","A"," ","3",".","0">>
T_fees_due == <<"f","e","e","s"," ","d","u","e">>
T_date_tbd == <<"d","a","t","e"," ","T","B","D">>
T_abbrev == <<"D","e","c"," ","5",","," ","2","0","2","0">>
T_feb30 == <<"F","e","b","r","u","a","r","y"," ","3","0",","," ","2","0","2","0">>
T_leap == <<"F","E","B","R","U","A","R","Y"," ","2","9",","," ","2","0","2","4">>
T_noleap == <<"F","e","b","r","u","a","r","y"," ","2","9",","," ","2","0","2","3">>
T_mixed == <<"m","a","y"," ","1",","," ","2","0","2","0"," ","t","o"," ","J","u","n","e"," ","1",","," ","2","0","3","0">>
T_glued == <<"x","M","a","y"," ","1",","," ","2","0","2","0">>
T_newyear == <<"J","a","n","u","a","r","y"," ","1",","," ","2","0","2","5">>
T_long == <<"D","e","c","e","m","b","e","r"," ","0","1",","," ","2","0","2","4","5">>
T_day0 == <<"J","u","n","e"," ","0",","," ","2","0","2","0"," ","a","n","d"," ","J","u","n","e"," ","3","2",","," ","2","0","2","0">>
T_nospace == <<"M","a","r","c","h"," ","5",",","2","0","2","0">>
T_back2back == <<"J","u","l","y"," ","4",","," ","2","0","3","0","J","u","l","y"," ","4",","," ","2","0","2","0">>
S_admissions == <<"a","d","m","i","s","s","i","o","n","s",".","t","x","t">>
S_deadlines == <<"d","e","a","d","l","i","n","e","s",".","t","x","t">>
S_capstone == <<"c","a","p","s","t","o","n","e",".","t","x","t">>
UNKNOWN_SOURCE == <<"U","n","k","n","o","w","n"," ","s","o","u","r","c","e">>
MonthNames ==
  << <<"j","a","n","u","a","r","y">>,
     <<"f","e","b","r","u","a","r","y">>,
     <<"m","a","r","c","h">>,
     <<"a","p","r","i","l">>,
     <<"m","a","y">>,
     <<"j","u","n","e">>,
     <<"j","u","l","y">>,
     <<"a","u","g","u","s","t">>,
     <<"s","e","p","t","e","m","b","e","r">>,
     <<"o","c","t","o","b","e","r">>,
     <<"n","o","v","e","m","b","e","r">>,
     <<"d","e","c","e","m","b","e","r">> >>
LowerOf ==
  "A" :> "a" @@ "B" :> "b" @@ "C" :> "c" @@ "D" :> "d" @@ "E" :> "e" @@ "F" :> "f" @@ "G" :> "g" @@ "H" :> "h" @@ "I" :> "i" @@ "J" :> "j" @@ "K" :> "k" @@ "L" :> "l" @@ "M" :> "m" @@ "N" :> "n" @@ "O" :> "o" @@ "P" :> "p" @@ "Q" :> "q" @@ "R" :> "r" @@ "S" :> "s" @@ "T" :> "t" @@ "U" :> "u" @@ "V" :> "v" @@ "W" :> "w" @@ "X" :> "x" @@ "Y" :> "y" @@ "Z" :> "z"
Letters == {"a","b","c","d","e","f","g","h","i","j","k","l","m","n","o","p","q","r","s","t","u","v","w","x","y","z","A","B","C","D","E","F","G","H","I","J","K","L","M","N","O","P","Q","R","S","T","U","V","W","X","Y","Z"}

DigitValue ==
  "0" :> 0 @@ "1" :> 1 @@ "2" :> 2 @@ "3" :> 3 @@ "4" :> 4 @@
  "5" :> 5 @@ "6" :> 6 @@ "7" :> 7 @@ "8" :> 8 @@ "9" :> 9

\* str.lower() on one character
ToLower(c) == IF c \in DOMAIN LowerOf THEN LowerOf[c] ELSE c
\* str.lower()
Lower(s) == [i \in 1..Len(s) |-> ToLower(s[i])]
\* Python's `kw in text` on strings
Contains(text, kw) ==
  \E i \in 0..(Len(text) - Len(kw)) : \A j \in 1..Len(kw) : text[i + j] = kw[j]

\* sep.join(parts)
RECURSIVE Join(_, _)
Join(sep, parts) ==
  IF parts = <<>> THEN <<>>
  ELSE IF Len(parts) = 1 THEN parts[1]
  ELSE parts[1] \o sep \o Join(sep, Tail(parts))

\* a langchain Document: page_content and metadata; metadata is <<>> when it
\* has no 'source' key and <<s>> when metadata['source'] = s
Doc(text, meta) == [page_content |-> text, metadata |-> meta]

\* doc.metadata.get('source', 'Unknown source')
MetadataSource(doc) ==
  IF doc.metadata = <<>> THEN UNKNOWN_SOURCE ELSE doc.metadata[1]

(***************************************************************************)
(* filters.py                                                              *)
(***************************************************************************)
IsLetterAt(text, i) == i >= 1 /\ i <= Len(text) /\ text[i] \in Letters
IsDigitAt(text, i) == i >= 1 /\ i <= Len(text) /\ text[i] \in DOMAIN DigitValue
IsCharAt(text, i, c) == i >= 1 /\ i <= Len(text) /\ text[i] = c

\* index of the last character of the greedy [A-Za-z]+ run starting at i
\* (i - 1 when text[i] is no letter)
RECURSIVE LetterRunEnd(_, _)
LetterRunEnd(text, i) ==
  IF IsLetterAt(text, i) THEN LetterRunEnd(text, i + 1) ELSE i - 1

\* r'([A-Za-z]+ \d{1,2}, \d{4})' tried at position i: the index of the last
\* character of the match, 0 when the pattern does not match at i.  The
\* letter run and the digit run are greedy; giving a character back never
\* helps, as the next pattern item is then matched against a letter or digit.
MatchEnd(text, i) ==
  LET e  == LetterRunEnd(text, i)
      nd == IF IsDigitAt(text, e + 2) /\ IsDigitAt(text, e + 3) THEN 2 ELSE 1
      c  == e + 2 + nd
  IN IF /\ e >= i
        /\ IsCharAt(text, e + 1, " ")
        /\ IsDigitAt(text, e + 2)
        /\ IsCharAt(text, c, ",")
        /\ IsCharAt(text, c + 1, " ")
        /\ \A k \in 2..5 : IsDigitAt(text, c + k)
     THEN c + 5
     ELSE 0

\* re.findall(pattern, text): the non-overlapping matches, scanned left to right
RECURSIVE FindAll(_, _)
FindAll(text, pos) ==
  IF pos > Len(text) THEN <<>>
  ELSE LET e == MatchEnd(text, pos)
       IN IF e > 0
          THEN <<SubSeq(text, pos, e)>> \o FindAll(text, e + 1)
          ELSE FindAll(text, pos + 1)

IsLeap(y) == (y % 4 = 0 /\ y % 100 # 0) \/ y % 400 = 0
DaysInMonth(y, mo) ==
  IF mo = 2 THEN (IF IsLeap(y) THEN 29 ELSE 28)
  ELSE IF mo \in {4, 6, 9, 11} THEN 30 ELSE 31

\* d1 < d2 on datetime.date values <<year, month, day>>
DateBefore(d1, d2) ==
  \/ d1[1] < d2[1]
  \/ d1[1] = d2[1] /\ d1[2] < d2[2]
  \/ d1[1] = d2[1] /\ d1[2] = d2[2] /\ d1[3] < d2[3]

\* datetime.strptime(m, "%B %d, %Y").date() for a regex match m:
\* [ok |-> TRUE, date |-> <<y, mo, d>>], or ok = FALSE when it raises ValueError.
\* %B is a full month name in any letter case; %d is
\* 3[0-1]|[1-2]\d|0[1-9]|[1-9]; %Y is four digits; the date must exist.
Strptime(m) ==
  LET e     == LetterRunEnd(m, 1)
      name  == Lower(SubSeq(m, 1, e))
      nd    == Len(m) - e - 7
      a     == DigitValue[m[e + 2]]
      b     == DigitValue[m[e + 3]]
      dayOk == IF nd = 2
               THEN (a = 3 /\ b \in {0, 1}) \/ a \in {1, 2} \/ (a = 0 /\ b \in 1..9)
               ELSE a \in 1..9
      day   == IF nd = 2 THEN 10 * a + b ELSE a
      y0    == Len(m) - 3
      year  == 1000 * DigitValue[m[y0]] + 100 * DigitValue[m[y0 + 1]]
                 + 10 * DigitValue[m[y0 + 2]] + DigitValue[m[y0 + 3]]
      isMonth == \E k \in 1..12 : MonthNames[k] = name
      month == IF isMonth THEN CHOOSE k \in 1..12 : MonthNames[k] = name ELSE 0
  IN IF isMonth /\ dayOk /\ year >= 1 /\ day <= DaysInMonth(year, month)
     THEN [ok |-> TRUE, date |-> <<year, month, day>>]
     ELSE [ok |-> FALSE, date |-> <<0, 0, 0>>]

\* the variant of KeepDoc that compares with d <= today
KeepDocNonStrict(doc, date) ==
  LET matches == FindAll(doc.page_content, 1)
  IN \A k \in 1..Len(matches) :
        LET r == Strptime(matches[k])
        IN ~(r.ok /\ (DateBefore(r.date, date) \/ r.date = date))

\* lines 10-17: keep starts True and is cleared by every match that parses
\* to a date before today; a match that fails to parse changes nothing
KeepDoc(doc, date) ==
  LET matches == FindAll(doc.page_content, 1)
  IN \A k \in 1..Len(matches) :
        LET r == Strptime(matches[k])
        IN ~(r.ok /\ DateBefore(r.date, date))

\* the variant of the filter that deletes expired passages from docs while
\* iterating over it by index, so that the passage after a deleted one is skipped
RECURSIVE DeleteWhileIterating(_, _, _)
DeleteWhileIterating(docs, i, date) ==
  IF i > Len(docs) THEN docs
  ELSE IF KeepDoc(docs[i], date)
       THEN DeleteWhileIterating(docs, i + 1, date)
       ELSE DeleteWhileIterating(SubSeq(docs, 1, i - 1) \o SubSeq(docs, i + 1, Len(docs)),
                                 i + 1, date)
filter_deleting_in_place(docs, date) == DeleteWhileIterating(docs, 1, date)

\* filter_expired_deadlines(docs), with the value datetime.today().date()
\* returns at the call passed as `date`
filter_expired_deadlines(docs, date) ==
  SelectSeq(docs, LAMBDA doc : KeepDoc(doc, date))

(***************************************************************************)
(* guardrails.py                                                           *)
(***************************************************************************)
\* the dict literal; a dict iterates in insertion order
CRITICAL_KEYWORDS ==
  << [category |-> "deadline",
      synonyms |-> <<KW_deadline, KW_due_date, KW_closes, KW_cutoff, KW_round>>],
     [category |-> "tuition",
      synonyms |-> <<KW_fee, KW_tuition, KW_cost, KW_price>>],
     [category |-> "requirement",
      synonyms |-> <<KW_requirement, KW_criteria, KW_prerequisite, KW_gpa>>] >>

\* the messages are kept as the pieces the code concatenates
ABSTAIN_MESSAGE ==
  << "I can't verify that from official Applied Data Science pages. ",
     "Please contact admissions at adsadmissions@uchicago.edu." >>
WarnMessage(category) ==
  << "This answer is based on retrieved information about ", category,
     ", but please confirm with admissions for the most up-to-date details." >>

\* any(kw in text for kw in synonyms)
AnyKeywordIn(synonyms, text) ==
  \E j \in 1..Len(synonyms) : Contains(text, synonyms[j])

\* the for loop of lines 23-38 from the k-th category on, and line 41
RECURSIVE ClassifyFrom(_, _, _)
ClassifyFrom(q, combined, k) ==
  IF k > Len(CRITICAL_KEYWORDS) THEN <<"pass", <<>> >>
  ELSE LET entry == CRITICAL_KEYWORDS[k]
       IN IF AnyKeywordIn(entry.synonyms, q)
          THEN IF ~AnyKeywordIn(entry.synonyms, combined)
               THEN <<"abstain", ABSTAIN_MESSAGE>>
               ELSE <<"warn", WarnMessage(entry.category)>>
          ELSE ClassifyFrom(q, combined, k + 1)

\* the variant of classify_guardrail that does not lower-case the question
classify_guardrail_case_sensitive(question, docs) ==
  LET combined == Join(<<" ">>, [i \in 1..Len(docs) |-> Lower(docs[i].page_content)])
  IN ClassifyFrom(question, combined, 1)

\* classify_guardrail(question, docs)
classify_guardrail(question, docs) ==
  LET q        == Lower(question)
      combined == Join(<<" ">>, [i \in 1..Len(docs) |-> Lower(docs[i].page_content)])
  IN ClassifyFrom(q, combined, 1)

(***************************************************************************)
(* reranker.py                                                             *)
(***************************************************************************)
\* the exception lines 11-22 raise, "none" when they return the logits.
\* An empty batch cannot be tokenized and scored: tokenizer([], [], ...)
\* followed by model(**inputs) raises whichever tokenizer class is loaded.
\* A pair the model cannot score makes model(**inputs) raise for the batch;
\* rerank has no try/except.
RerankRaises(docs, bad) ==
  IF docs = <<>> THEN "IndexError"
  ELSE IF bad # 0 THEN "ScoringError"
  ELSE "none"

\* list(zip(docs, scores.tolist()))
Zip(docs, sc) == [i \in 1..Len(docs) |-> <<docs[i], sc[i]>>]

\* one insertion of a stable descending sort: x goes after every element
\* whose score is >= its own
RECURSIVE InsertDescending(_, _)
InsertDescending(sorted, x) ==
  IF sorted = <<>> THEN <<x>>
  ELSE IF Head(sorted)[2] >= x[2]
       THEN <<Head(sorted)>> \o InsertDescending(Tail(sorted), x)
       ELSE <<x>> \o sorted

\* scored_docs.sort(key=lambda x: x[1], reverse=True) on the first n elements;
\* list.sort is stable, also with reverse=True
RECURSIVE SortDescending(_, _)
SortDescending(scored, n) ==
  IF n = 0 THEN <<>>
  ELSE InsertDescending(SortDescending(scored, n - 1), scored[n])

\* scored_docs[:top_k] for top_k >= 0
Slice(s, top_k) == SubSeq(s, 1, IF top_k < Len(s) THEN top_k ELSE Len(s))

\* the variant of rerank that slices scored_docs[:top_k + 1]
rerank_one_too_many(docs, sc, top_k) ==
  LET scored_docs == Slice(SortDescending(Zip(docs, sc), Len(docs)), top_k + 1)
  IN [i \in 1..Len(scored_docs) |-> scored_docs[i][1]]

\* lines 24-27 of rerank: the value returned for logits sc
rerank(docs, sc, top_k) ==
  LET scored_docs == Slice(SortDescending(Zip(docs, sc), Len(docs)), top_k)
  IN [i \in 1..Len(scored_docs) |-> scored_docs[i][1]]

(***************************************************************************)
(* Inputs.                                                                 *)
(***************************************************************************)
\* the dates the system clock shows
Todays == { <<2025, 1, 1>>, <<2026, 11, 1>> }

Queries == { Q_deadline, Q_tuition, Q_gpa_cost, Q_capstone, Q_coffee, Q_due_date }

\* the questions asked of the whole pipeline
Prompts == { Q_deadline, Q_capstone }

\* the documents of the vector index
Corpus ==
  { Doc(T_round1, <<S_admissions>>), Doc(T_future, <<S_deadlines>>),
    Doc(T_newyear, <<S_deadlines>>), Doc(T_tuition, <<>>),
    Doc(T_capstone, <<S_capstone>>) }

FilterTexts ==
  { T_past, T_future, T_capstone, T_round1, T_abbrev, T_feb30, T_leap,
    T_noleap, T_mixed, T_glued, T_newyear, T_long, T_day0, T_nospace,
    T_back2back }

GuardrailTexts ==
  { T_round1, T_future, T_tuition, T_capstone, T_gpa, T_fees_due, T_date_tbd }

\* the sequences of at most n elements of S
SeqsUpTo(S, n) == UNION { [1..k -> S] : k \in 0..n }

\* what the retriever may return: at most k distinct documents of the index,
\* in any order
Retrievable(k) ==
  { s \in SeqsUpTo(Corpus, k) :
      \A i, j \in 1..Len(s) : i # j => s[i] # s[j] }

\* the texts the language model may return, after strip()
Answers == { <<>>, <<"o","k">> }

(***************************************************************************)
(* RAGChatApp.run, for one question.                                       *)
(***************************************************************************)
Blank ==
  /\ reference_date = <<0, 0, 0>>
  /\ used_date = <<0, 0, 0>>
  /\ retrieved_docs = <<>>
  /\ filtered_docs = <<>>
  /\ refiltered_docs = <<>>
  /\ bad_pair = 0
  /\ scores = <<>>
  /\ reranked_docs = <<>>
  /\ verdict = <<"none", <<>> >>
  /\ context = <<>>
  /\ answer = <<>>
  /\ sources = <<>>
  /\ calls = <<>>
  /\ raised = "none"

Init ==
  /\ pc = "chat_input"
  /\ prompt \in Prompts
  /\ today \in Todays
  /\ Blank

\* line 126
Retrieve ==
  /\ pc = "chat_input"
  /\ \E docs \in Retrievable(RetrieverK) : retrieved_docs' = docs
  /\ calls' = Append(calls, "retrieve")
  /\ pc' = "retrieved"
  /\ UNCHANGED << prompt, today, reference_date, used_date, filtered_docs,
                  refiltered_docs, bad_pair, scores, reranked_docs, verdict,
                  context, answer, sources, raised >>

\* line 127
Filter ==
  /\ pc = "retrieved"
  /\ filtered_docs' = filter_expired_deadlines(retrieved_docs, today)
  /\ used_date' = today
  /\ calls' = Append(calls, "filter")
  /\ pc' = "filtered"
  /\ UNCHANGED << prompt, today, reference_date, retrieved_docs,
                  refiltered_docs, bad_pair, scores, reranked_docs, verdict,
                  context, answer, sources, raised >>

\* line 130; an exception leaves run(), which catches nothing
Rerank ==
  /\ pc = "filtered"
  /\ calls' = Append(calls, "rerank")
  /\ \E bad \in 0..Len(filtered_docs) :
     \E sc \in [1..Len(filtered_docs) -> 0..MaxScore] :
        /\ bad_pair' = bad
        /\ raised' = RerankRaises(filtered_docs, bad)
        /\ IF raised' # "none"
           THEN /\ pc' = "error"
                /\ UNCHANGED << scores, reranked_docs >>
           ELSE /\ pc' = "reranked"
                /\ scores' = sc
                /\ reranked_docs' = rerank(filtered_docs, sc, TopK)
  /\ UNCHANGED << prompt, today, reference_date, used_date, retrieved_docs,
                  filtered_docs, refiltered_docs, verdict, context, answer,
                  sources >>

\* the variant of BuildContext that joins with a single line break
BuildContextSingleBreak(docs) ==
  Join(<<"\n">>, [i \in 1..Len(docs) |-> docs[i].page_content])

\* "\n\n".join([doc.page_content for doc in reranked_docs])
BuildContext(docs) ==
  Join(<<"\n", "\n">>, [i \in 1..Len(docs) |-> docs[i].page_content])

\* line 134
Assemble ==
  /\ pc = "reranked"
  /\ context' = BuildContext(reranked_docs)
  /\ calls' = Append(calls, "assemble")
  /\ pc' = "assembled"
  /\ UNCHANGED << prompt, today, reference_date, used_date, retrieved_docs,
                  filtered_docs, refiltered_docs, bad_pair, scores,
                  reranked_docs, verdict, answer, sources, raised >>

\* lines 135-149: the prompt is filled with context and question and the
\* language model answers
Generate ==
  /\ pc = "assembled"
  /\ \E a \in Answers : answer' = a
  /\ calls' = Append(calls, "generate")
  /\ pc' = "answered"
  /\ UNCHANGED << prompt, today, reference_date, used_date, retrieved_docs,
                  filtered_docs, refiltered_docs, bad_pair, scores,
                  reranked_docs, verdict, context, sources, raised >>

\* lines 155-158: one "- source" line per reranked document
SourceLines(docs) ==
  Join(<<"\n">>, [i \in 1..Len(docs) |-> <<"-", " ">> \o MetadataSource(docs[i])])

\* lines 151-165
ShowSources ==
  /\ pc = "answered"
  /\ sources' = SourceLines(reranked_docs)
  /\ pc' = "done"
  /\ UNCHANGED << prompt, today, reference_date, used_date, retrieved_docs,
                  filtered_docs, refiltered_docs, bad_pair, scores,
                  reranked_docs, verdict, context, answer, calls, raised >>

Next == Retrieve \/ Filter \/ Rerank \/ Assemble \/ Generate \/ ShowSources

Spec == Init /\ [][Next]_vars

(***************************************************************************)
(* filter_expired_deadlines called on a passage list, then on its own      *)
(* output; the clock may pass midnight between the two calls.              *)
(***************************************************************************)
UnitDocs(texts) == SeqsUpTo({ Doc(t, <<>>) : t \in texts }, MaxUnitDocs)

InitFilter ==
  /\ pc = "filter_unit"
  /\ prompt = <<>>
  /\ today \in Todays
  /\ reference_date \in Todays
  /\ retrieved_docs \in UnitDocs(FilterTexts)
  /\ used_date = <<0, 0, 0>>
  /\ filtered_docs = <<>>
  /\ refiltered_docs = <<>>
  /\ bad_pair = 0
  /\ scores = <<>>
  /\ reranked_docs = <<>>
  /\ verdict = <<"none", <<>> >>
  /\ context = <<>>
  /\ answer = <<>>
  /\ sources = <<>>
  /\ calls = <<>>
  /\ raised = "none"

FilterCall ==
  /\ pc = "filter_unit"
  /\ filtered_docs' = filter_expired_deadlines(retrieved_docs, today)
  /\ used_date' = today
  /\ pc' = "filter_returned"
  /\ UNCHANGED << prompt, today, reference_date, retrieved_docs,
                  refiltered_docs, bad_pair, scores, reranked_docs, verdict,
                  context, answer, sources, calls, raised >>

ClockTick ==
  /\ pc = "filter_returned"
  /\ \E d \in Todays : DateBefore(today, d) /\ today' = d
  /\ UNCHANGED << pc, prompt, reference_date, used_date, retrieved_docs,
                  filtered_docs, refiltered_docs, bad_pair, scores,
                  reranked_docs, verdict, context, answer, sources, calls,
                  raised >>

FilterAgain ==
  /\ pc = "filter_returned"
  /\ refiltered_docs' = filter_expired_deadlines(filtered_docs, today)
  /\ pc' = "filter_reapplied"
  /\ UNCHANGED << prompt, today, reference_date, used_date, retrieved_docs,
                  filtered_docs, bad_pair, scores, reranked_docs, verdict,
                  context, answer, sources, calls, raised >>

NextFilter == FilterCall \/ ClockTick \/ FilterAgain

SpecFilter == InitFilter /\ [][NextFilter]_vars

(***************************************************************************)
(* classify_guardrail called on a question and a passage list.             *)
(***************************************************************************)
InitGuardrail ==
  /\ pc = "guardrail_unit"
  /\ prompt \in Queries
  /\ today = <<2025, 1, 1>>
  /\ reranked_docs \in UnitDocs(GuardrailTexts)
  /\ reference_date = <<0, 0, 0>>
  /\ used_date = <<0, 0, 0>>
  /\ retrieved_docs = <<>>
  /\ filtered_docs = <<>>
  /\ refiltered_docs = <<>>
  /\ bad_pair = 0
  /\ scores = <<>>
  /\ verdict = <<"none", <<>> >>
  /\ context = <<>>
  /\ answer = <<>>
  /\ sources = <<>>
  /\ calls = <<>>
  /\ raised = "none"

ClassifyCall ==
  /\ pc = "guardrail_unit"
  /\ verdict' = classify_guardrail(prompt, reranked_docs)
  /\ pc' = "guardrail_returned"
  /\ UNCHANGED << prompt, today, reference_date, used_date, retrieved_docs,
                  filtered_docs, refiltered_docs, bad_pair, scores,
                  reranked_docs, context, answer, sources, calls, raised >>

NextGuardrail == ClassifyCall

SpecGuardrail == InitGuardrail /\ [][NextGuardrail]_vars

(***************************************************************************)
(* Properties.                                                             *)
(***************************************************************************)
AfterFilter == { "filtered", "reranked", "assembled", "answered", "done", "error" }
AfterRerank == { "reranked", "assembled", "answered", "done" }
AfterAssemble == { "assembled", "answered", "done" }

\* kw, a lower-case keyword, is a substring of text when letter case is ignored
OccursIgnoringCase(kw, text) ==
  \E i \in 0..(Len(text) - Len(kw)) :
     \A j \in 1..Len(kw) : ToLower(text[i + j]) = kw[j]

\* some synonym of the k-th category occurs in text
CategoryOccurs(k, text) ==
  \E j \in 1..Len(CRITICAL_KEYWORDS[k].synonyms) :
     OccursIgnoringCase(CRITICAL_KEYWORDS[k].synonyms[j], text)

\* the passages' text, concatenated with single blanks
RECURSIVE Concatenated(_)
Concatenated(docs) ==
  IF docs = <<>> THEN <<>>
  ELSE IF Len(docs) = 1 THEN docs[1].page_content
  ELSE docs[1].page_content \o <<" ">> \o Concatenated(Tail(docs))

\* the verdict kind the first-matching-category rule gives
ExpectedKind(question, docs) ==
  LET matching == { k \in 1..Len(CRITICAL_KEYWORDS) : CategoryOccurs(k, question) }
  IN IF matching = {} THEN "pass"
     ELSE LET first == CHOOSE k \in matching : \A m \in matching : k <= m
          IN IF CategoryOccurs(first, Concatenated(docs)) THEN "warn" ELSE "abstain"

\* C2: classify returns exactly one verdict: pass with no advisory when no
\* category's synonym is a case-insensitive substring of the query; otherwise
\* only the first matching category in the order deadline, tuition,
\* requirement counts, and the verdict is abstain when none of its synonyms
\* occurs in the concatenated passage text and warn, naming that category,
\* when one does.  A deadline question against passages without deadline
\* text abstains, and against "Round 1 deadline: January 5, 2024" warns.
C2_FirstMatchingCategoryDecides ==
  pc = "guardrail_returned" =>
    LET matching == { k \in 1..Len(CRITICAL_KEYWORDS) : CategoryOccurs(k, prompt) }
        kind     == ExpectedKind(prompt, reranked_docs)
    IN /\ verdict[1] \in { "pass", "warn", "abstain" }
       /\ verdict[1] = kind
       /\ kind = "pass" => verdict[2] = <<>>
       /\ kind = "abstain" => verdict[2] = ABSTAIN_MESSAGE
       /\ kind = "warn" =>
            LET first == CHOOSE k \in matching : \A m \in matching : k <= m
            IN /\ Len(verdict[2]) = 3
               /\ verdict[2][2] = <<"deadline", "tuition", "requirement">>[first]
       /\ ( /\ prompt = Q_deadline
            /\ \A i \in 1..Len(reranked_docs) :
                  reranked_docs[i].page_content \in { T_tuition, T_capstone, T_gpa } )
          => verdict[1] = "abstain"
       /\ ( /\ prompt = Q_deadline
            /\ \E i \in 1..Len(reranked_docs) :
                  reranked_docs[i].page_content = T_round1 )
          => verdict[1] = "warn"

\* a question about cost and GPA against a passage that only has GPA text:
\* tuition is the first matching category and has no evidence
C2_Witness ==
  /\ pc = "guardrail_returned"
  /\ prompt = Q_gpa_cost
  /\ reranked_docs = << Doc(T_gpa, <<>>) >>
  /\ verdict[1] = "abstain"

\* the number a run of digits denotes
RECURSIVE NumberAt(_, _, _)
NumberAt(text, first, last) ==
  IF last < first THEN 0
  ELSE 10 * NumberAt(text, first, last - 1) + DigitValue[text[last]]

\* text has, at position i, a mention "Month Day, Year" of month mo with a
\* day of nd digits: the month's name in any letter case, not the tail of a
\* longer word, a blank, the day, a comma and a blank, and a four-digit year
MentionsDateAt(text, i, mo, nd) ==
  LET L == Len(MonthNames[mo])
      c == i + L + 1 + nd
  IN /\ c + 5 <= Len(text)
     /\ i = 1 \/ text[i - 1] \notin Letters
     /\ \A j \in 1..L : ToLower(text[i + j - 1]) = MonthNames[mo][j]
     /\ text[i + L] = " "
     /\ \A j \in 1..nd : text[i + L + j] \in DOMAIN DigitValue
     /\ text[c] = "," /\ text[c + 1] = " "
     /\ \A j \in 2..5 : text[c + j] \in DOMAIN DigitValue

\* the date that mention denotes, <<year, month, day>>
MentionedDate(text, i, mo, nd) ==
  LET L == Len(MonthNames[mo])
      c == i + L + 1 + nd
  IN << NumberAt(text, c + 2, c + 5), mo, NumberAt(text, i + L + 1, c - 1) >>

\* a date of the calendar
IsCalendarDate(date) ==
  /\ date[1] >= 1
  /\ date[3] >= 1
  /\ date[3] <= DaysInMonth(date[1], date[2])

\* text mentions a calendar date strictly before ref
HasExpiredDate(text, ref) ==
  \E i \in 1..Len(text), mo \in 1..12, nd \in 1..2 :
     /\ MentionsDateAt(text, i, mo, nd)
     /\ IsCalendarDate(MentionedDate(text, i, mo, nd))
     /\ DateBefore(MentionedDate(text, i, mo, nd), ref)

\* the passages of docs that mention no expired date, in input order
Unexpired(docs, ref) ==
  SelectSeq(docs, LAMBDA doc : ~HasExpiredDate(doc.page_content, ref))

C6_FilterIdempotent ==
  (pc = "filter_reapplied" /\ today = used_date) =>
     refiltered_docs = filtered_docs

\* the second call ran on the same day on an output that lost a passage
C6_Witness ==
  /\ pc = "filter_reapplied"
  /\ today = used_date
  /\ Len(filtered_docs) < Len(retrieved_docs)
  /\ filtered_docs # <<>>
  /\ refiltered_docs = filtered_docs

\* C5: the passage count never increases from stage to stage: the count
\* after the filter is at most the count retrieved, and the count after the
\* reranker is at most top_k and at most the count after the filter.
C5_CountsNeverIncrease ==
  /\ pc \in AfterFilter => Len(filtered_docs) <= Len(retrieved_docs)
  /\ pc \in AfterRerank =>
        /\ Len(reranked_docs) <= TopK
        /\ Len(reranked_docs) <= Len(filtered_docs)

\* a run in which the filter dropped a passage and the reranker cut the rest
C5_Witness ==
  /\ pc = "reranked"
  /\ Len(filtered_docs) < Len(retrieved_docs)
  /\ Len(reranked_docs) < Len(filtered_docs)
  /\ Len(reranked_docs) = TopK

\* the position in str of the first character of the i-th item of
\* sep.join(items)
RECURSIVE OffsetOf(_, _, _)
OffsetOf(items, sep, i) ==
  IF i = 1 THEN 1
  ELSE OffsetOf(items, sep, i - 1) + Len(items[i - 1]) + Len(sep)

\* str consists of the items in order, each followed by sep except the last
IsJoined(str, items, sep) ==
  LET n == Len(items)
  IN IF n = 0 THEN str = <<>>
     ELSE /\ Len(str) = OffsetOf(items, sep, n) + Len(items[n]) - 1
          /\ \A i \in 1..n :
                LET o == OffsetOf(items, sep, i)
                IN /\ SubSeq(str, o, o + Len(items[i]) - 1) = items[i]
                   /\ i < n => SubSeq(str, o + Len(items[i]),
                                      o + Len(items[i]) + Len(sep) - 1) = sep

\* the lines of str from position start on, scanning from position i
RECURSIVE LinesFrom(_, _, _)
LinesFrom(str, start, i) ==
  IF i > Len(str) THEN <<SubSeq(str, start, Len(str))>>
  ELSE IF str[i] = "\n"
       THEN <<SubSeq(str, start, i - 1)>> \o LinesFrom(str, i + 1, i + 1)
       ELSE LinesFrom(str, start, i + 1)

\* the lines of a text; the empty text has none
LinesOf(str) == IF str = <<>> THEN <<>> ELSE LinesFrom(str, 1, 1)

C1_AbstainWithholdsPassages ==
  (pc \in AfterAssemble /\ classify_guardrail(prompt, reranked_docs)[1] = "abstain") =>
     /\ context = <<>>
     /\ sources = <<>>
     /\ verdict = classify_guardrail(prompt, reranked_docs)
     /\ \A i \in 1..Len(calls) : calls[i] # "generate"

\* C9: every invocation runs retriever, filter, reranker, guardrail
\* classifier, context assembler and answer generator once each, in this
\* order; the reranker scores every passage the filter kept, and the verdict
\* on the reranked passages exists before the context is assembled.
C9_StagesInOrder ==
  /\ pc \in AfterRerank => Len(scores) = Len(filtered_docs)
  /\ pc \in AfterAssemble => verdict = classify_guardrail(prompt, reranked_docs)
  /\ pc = "done" =>
        calls = << "retrieve", "filter", "rerank", "classify", "assemble", "generate" >>

\* C7: when the retriever returns nothing, every later stage gets empty
\* input and completes without an error, and the final context is empty.
C7_EmptyRetrievalCompletes ==
  (pc # "chat_input" /\ retrieved_docs = <<>>) =>
     /\ raised = "none"
     /\ pc \in AfterFilter => filtered_docs = <<>>
     /\ pc \in AfterRerank => reranked_docs = <<>>
     /\ pc \in AfterAssemble => context = <<>>

\* out is docs sorted by descending score, ties in input order, cut to top_k:
\* the i-th passage of docs is at the place given by the number of passages
\* that must precede it
IsStableTopK(out, docs, sc, top_k) ==
  LET n == Len(docs)
      place(i) == 1 + Cardinality({ j \in 1..n :
                      sc[j] > sc[i] \/ (sc[j] = sc[i] /\ j < i) })
  IN /\ Len(out) = IF top_k < n THEN top_k ELSE n
     /\ \A i \in 1..n : place(i) <= top_k => out[place(i)] = docs[i]

\* C4: rerank returns the input passages sorted by descending score, ties in
\* input order, cut to the first top_k; when fewer than top_k passages are
\* supplied, all of them are returned, sorted.
C4_RerankReturnsStableTopK ==
  (pc \in (AfterRerank \cup {"error"}) /\ bad_pair = 0) =>
     /\ raised = "none"
     /\ IsStableTopK(reranked_docs, filtered_docs, scores, TopK)

\* the part of C4 that holds: whenever rerank returns, it returns the stable
\* top_k of its input
RerankResultIsStableTopK ==
  pc \in AfterRerank => IsStableTopK(reranked_docs, filtered_docs, scores, TopK)

\* C10: when scoring fails for one pair, the batch is not aborted and the
\* failure is not surfaced: every passage is ranked, the affected one after
\* every passage that was scored.
C10_ScoringFailureAbsorbed ==
  (pc \in (AfterRerank \cup {"error"}) /\ bad_pair # 0) =>
     /\ raised = "none"
     /\ pc # "error"
     /\ Len(reranked_docs) =
           IF TopK < Len(filtered_docs) THEN TopK ELSE Len(filtered_docs)
     /\ \A i \in 1..Len(reranked_docs) :
           reranked_docs[i] = filtered_docs[bad_pair] => i = Len(filtered_docs)

====
